---- MODULE Spec2Model ----
(***************************************************************************)
(* Dynamic light propagation engine of unlight (src/unlight/src/utils.rs). *)
(*                                                                         *)
(* One lighting pass is modelled as a state machine: the host resolves the *)
(* active sources, applies the prebaked contributions, leaks light through *)
(* stairs, creates the stair wave edges, runs the breadth-first wave-edge  *)
(* propagation (one queue pop per step) and finally aggregates exposure.   *)
(*                                                                         *)
(* f32 values are fixed-point integers:                                    *)
(*   lux            in units of 1/LuxScale  (one unit = the 0.0000001      *)
(*                  cut-off of the propagation loop),                      *)
(*   colour channel in units of 1/ColorScale,                              *)
(*   positions      in units of 1/PosScale of a tile,                      *)
(*   turn penalty   in units of 1/Milli.                                   *)
(* Every multiplication by a fractional factor truncates (MulDiv).         *)
(***************************************************************************)
EXTENDS Integers, Sequences, FiniteSets, TLC

\* ------------------------------------------------------------------ bounds
\* Board dimensions (bf.map_size).
SizeX == 3
SizeY == 2
SizeZ == 2

\* ------------------------------------------------------- fixed-point units
LuxScale == 10000000
ColorScale == 10
PosScale == 100
Milli == 1000

NoSource == -1

map_size == <<SizeX, SizeY, SizeZ>>
Tiles == (0 .. SizeX - 1) \X (0 .. SizeY - 1) \X (0 .. SizeZ - 1)

\* floor(a * b / c) without leaving 32-bit range while (c - 1) * b fits.
MulDiv(a, b, c) == (a \div c) * b + ((a % c) * b) \div c

Min(a, b) == IF a < b THEN a ELSE b
Max(a, b) == IF a > b THEN a ELSE b
Clamp(v, lo, hi) == Max(lo, Min(v, hi))

\* The value of a singleton set.
The(S) == CHOOSE x \in S : TRUE

\* Binary search for the largest r in lo .. hi with r * r <= n.
RECURSIVE SqrtSearch(_, _, _)
SqrtSearch(n, lo, hi) ==
    The(UNION {IF l >= h THEN {l}
               ELSE {IF mid * mid <= n THEN SqrtSearch(n, mid, h)
                     ELSE SqrtSearch(n, l, mid - 1) : mid \in {(l + h + 1) \div 2}} :
               l \in {lo}, h \in {hi}})

\* f32::sqrt on a non-negative fixed-point square: the integer square root.
Sqrt(n) == SqrtSearch(n, 0, 46340)

\* ---------------------------------------------------------------- helpers
\* Mutant of is_in_bounds: the upper limits are compared with <=.
is_in_bounds_inclusive(pos, ms) ==
    /\ pos[1] >= 0 /\ pos[2] >= 0 /\ pos[3] >= 0
    /\ pos[1] <= ms[1] /\ pos[2] <= ms[2] /\ pos[3] <= ms[3]

\* Checks if a position is within the board boundaries.
is_in_bounds(pos, ms) ==
    /\ pos[1] >= 0
    /\ pos[2] >= 0
    /\ pos[3] >= 0
    /\ pos[1] < ms[1]
    /\ pos[2] < ms[2]
    /\ pos[3] < ms[3]

blend_colors(c1, lux1, c2, lux2) ==
    LET total_lux == lux1 + lux2
    IN IF total_lux <= 0 THEN <<ColorScale, ColorScale, ColorScale>>
       ELSE [i \in 1 .. 3 |-> (c1[i] * lux1 + c2[i] * lux2) \div total_lux]

\* IIR factors in tenths.
IIR_FACTOR_1 == 8
IIR_FACTOR_2 == 8

apply_iir_filter(current_value, new_value, factor) ==
    [i \in 1 .. 3 |-> (current_value[i] * factor + new_value[i] * (10 - factor)) \div 10]

\* Position of a tile as an f32 triple.
PosF32(p) == <<p[1] * PosScale, p[2] * PosScale, p[3] * PosScale>>

\* Mutant of directions: the x steps are replaced by vertical ones.
directions_with_vertical == <<<<0, -1, 0>>, <<0, 1, 0>>, <<0, 0, -1>>, <<0, 0, 1>>>>

directions == <<<<0, -1, 0>>, <<0, 1, 0>>, <<-1, 0, 0>>, <<1, 0, 0>>>>

\* TURN_FACTOR in tenths.
TURN_FACTOR == 6

SumSq(v) == v[1] * v[1] + v[2] * v[2] + v[3] * v[3]

\* Length of a direction vector in tenths of a position unit.
VecLen(v) == Sqrt(SumSq(v) * 100)

Normalize(v, len) == [i \in 1 .. 3 |-> (v[i] * 10 * Milli) \div len]

\* Mutant of BaseTurnPenalty: a turn costs nothing.
FlatTurnPenalty(we) == Milli

\* Mutant of BaseTurnPenalty: a zero-length direction counts as a full turn.
TurnPenaltyOfLostDirection(we) ==
    LET old_dir == [i \in 1 .. 3 |-> we.iir_mean_pos[i] - we.iir_mean_iir_mean_pos[i]]
        recent_dir == [i \in 1 .. 3 |-> we.current_pos[i] - we.iir_mean_pos[i]]
    IN IF SumSq(old_dir) > 0 /\ SumSq(recent_dir) > 0
       THEN FlatTurnPenalty(we)
       ELSE Milli + TURN_FACTOR * 100

\* The turn penalty block (before the max_lux_possible > 0.2 surcharge), in Milli.
BaseTurnPenalty(we) ==
    LET old_dir == [i \in 1 .. 3 |-> we.iir_mean_pos[i] - we.iir_mean_iir_mean_pos[i]]
        recent_dir == [i \in 1 .. 3 |-> we.current_pos[i] - we.iir_mean_pos[i]]
    IN IF SumSq(old_dir) > 0 /\ SumSq(recent_dir) > 0
       THEN LET old_norm == Normalize(old_dir, VecLen(old_dir))
                recent_norm == Normalize(recent_dir, VecLen(recent_dir))
                dot_product == (old_norm[1] * recent_norm[1]
                                + old_norm[2] * recent_norm[2]
                                + old_norm[3] * recent_norm[3]) \div Milli
                nudged == Clamp(dot_product + 10, -Milli, Milli)
            IN Milli + ((Milli - nudged) * TURN_FACTOR) \div 10
       ELSE Milli

\* max_lux_possible > 0.2 adds 0.1 to the penalty.
TurnPenalty(we, max_lux_possible) ==
    BaseTurnPenalty(we)
        + (IF max_lux_possible * 10 > 2 * LuxScale THEN Milli \div 10 ELSE 0)

\* Mutant of Transparency: every tile lets all the light through.
TransparencyLossless(is_stair_edge, collision, turn_penalty) == <<1, 1>>

\* Mutant of Transparency: an opaque wall lets no light in.
TransparencyOpaqueWalls(is_stair_edge, collision, turn_penalty) ==
    IF is_stair_edge
    THEN (IF collision.see_through THEN <<9, 10>> ELSE <<1, 10>>)
    ELSE IF collision.player_free /\ collision.see_through /\ ~collision.is_dynamic
         THEN <<980, Min(turn_penalty, 1500)>>
         ELSE IF collision.see_through THEN <<4, 10>> ELSE <<0, 100>>

\* Transparency of a step as a fraction <<numerator, denominator>>.
Transparency(is_stair_edge, collision, turn_penalty) ==
    IF is_stair_edge
    THEN (IF collision.see_through THEN <<9, 10>> ELSE <<1, 10>>)
    ELSE IF collision.player_free /\ collision.see_through /\ ~collision.is_dynamic
         THEN <<980, Min(turn_penalty, 1500)>>
         ELSE IF collision.see_through THEN <<4, 10>> ELSE <<5, 100>>

\* max_lux_possible of a packet.
MaxLuxPossible(we) ==
    we.src_light_lux \div (we.distance_travelled * we.distance_travelled)

\* -------------------------------------------------------------- the state
VARIABLES
    bf,                 \* BoardData: the grid store, the baked data, exposure_lux, light_field
    qt,                 \* the entity query: entity -> its Behavior, for the entities that exist
    lfs,                \* the working light field
    active_source_ids,  \* result of identify_active_light_sources
    queue,              \* the propagation queue of propagate_from_wave_edges
    propagation_count,  \* propagation_count of propagate_from_wave_edges
    tiles_lit,          \* result of apply_prebaked_contributions
    stair_count,        \* result of propagate_through_stairs
    stair_wave_edges,   \* result of create_stair_wave_edges
    pc                  \* position of the pass

vars == <<bf, qt, lfs, active_source_ids, queue, propagation_count, tiles_lit, stair_count,
          stair_wave_edges, pc>>

\* LightFieldData::default(): a dark tile.
DefaultLight == [lux |-> 0, color |-> <<0, 0, 0>>]

\* ------------------------------------------- propagate_from_wave_edges
\* Mutant of TooDim: no packet is a dead branch.
NeverTooDim(max_lux_possible) == FALSE

\* The dead-branch test on a popped packet: max_lux_possible < 0.0000001.
TooDim(max_lux_possible) == max_lux_possible < 1

\* Mutant of AllowedDirections: every packet may go in all four directions.
AllowedDirectionsUnmasked(b, edge_data, is_stair_edge) ==
    <<TRUE, <<TRUE, TRUE, TRUE, TRUE>>>>

\* allowed_directions of a packet: <<found, mask>>; found = FALSE is the None arm.
AllowedDirections(b, edge_data, is_stair_edge) ==
    IF is_stair_edge THEN <<TRUE, <<TRUE, TRUE, TRUE, TRUE>>>>
    ELSE LET sid == edge_data.source_id
             xy == <<edge_data.position[1], edge_data.position[2]>>
         IN IF sid + 1 <= Len(b.prebaked_propagation)
                  /\ xy \in DOMAIN b.prebaked_propagation[sid + 1]
            THEN <<TRUE, b.prebaked_propagation[sid + 1][xy]>>
            ELSE <<FALSE, <<FALSE, FALSE, FALSE, FALSE>>>>

\* Mutant of AlreadyBright: the early exit waits for eight times the lux.
AlreadyBrightAtEight(neighbour_lux, max_lux_possible) ==
    neighbour_lux > max_lux_possible * 8

\* Early exit: the neighbour is already too bright for this packet.
AlreadyBright(neighbour_lux, max_lux_possible) == neighbour_lux > max_lux_possible * 4

\* Mutant of SameSourceBaked: no neighbour counts as baked by the same source.
NeverSameSource(b, edge_data, neighbour_idx) == FALSE

\* The neighbour was lit by the same source in the prebaked data.
SameSourceBaked(b, edge_data, neighbour_idx) ==
    edge_data.source_id = b.prebaked_lighting[neighbour_idx].source_id

\* The IIR update of the packet's position history for a step onto new_pos_f32.
StepWaveEdge(we, new_pos_f32) ==
    LET m1 == apply_iir_filter(we.iir_mean_pos, new_pos_f32, IIR_FACTOR_1)
        m2 == apply_iir_filter(we.iir_mean_iir_mean_pos, m1, IIR_FACTOR_2)
    IN [we EXCEPT !.current_pos = new_pos_f32,
                  !.iir_mean_pos = m1,
                  !.iir_mean_iir_mean_pos = m2]

\* Mutant of NewLux: the division uses the distance after the step.
NewLuxAfterStep(src_light_lux, distance_travelled) ==
    src_light_lux \div ((distance_travelled + 1) * (distance_travelled + 1))

\* new_lux of a step: src_light_lux / (distance_travelled * distance_travelled).
NewLux(src_light_lux, distance_travelled) ==
    src_light_lux \div (distance_travelled * distance_travelled)

\* Mutant of Negligible: the packet is dropped only at ten times the new lux.
NegligibleAtTen(neighbour_lux, new_lux) == neighbour_lux > new_lux * 10

\* The contribution is too small for the neighbour: the packet is dropped.
Negligible(neighbour_lux, new_lux) == neighbour_lux > new_lux * 5

\* The neighbour is bright enough for the packet to be dampened.
Dampened(neighbour_lux, new_lux) == neighbour_lux > new_lux * 2

\* new_wave_edge.src_light_lux /= 1.1
Dampen(src_light_lux) == MulDiv(src_light_lux, 10, 11)

\* Mutant of LitBy: the tile keeps the larger of its lux and the new lux.
LitByMax(entry, color, new_lux) ==
    [lux |-> Max(entry.lux, new_lux),
     color |-> IF entry.lux > 0
               THEN blend_colors(entry.color, entry.lux, color, new_lux)
               ELSE color]

\* Mutant of LitBy: the new lux is subtracted instead of added.
LitBySubtracting(entry, color, new_lux) ==
    [lux |-> entry.lux - new_lux,
     color |-> IF entry.lux > 0
               THEN blend_colors(entry.color, entry.lux, color, new_lux)
               ELSE color]

\* The light field entry of the neighbour after an accepted step.
LitBy(entry, color, new_lux) ==
    [lux |-> entry.lux + new_lux,
     color |-> IF entry.lux > 0
               THEN blend_colors(entry.color, entry.lux, color, new_lux)
               ELSE color]

\* One iteration of the direction loop; st = [lfs, queue, count, fault], where
\* fault records an index outside the light field (a panic of the indexing).
ProcessDirection(b, st, edge_data, max_lux_possible, is_stair_edge, allowed, dir_idx) ==
    LET pos == edge_data.position
        d == directions[dir_idx]
        n == <<pos[1] + d[1], pos[2] + d[2], pos[3] + d[3]>>
    IN IF st.fault THEN st
       ELSE IF ~is_stair_edge /\ ~allowed[dir_idx] THEN st
       ELSE IF ~is_in_bounds(n, b.map_size) THEN st
       ELSE IF n \notin DOMAIN st.lfs THEN [st EXCEPT !.fault = TRUE]
       ELSE IF AlreadyBright(st.lfs[n].lux, max_lux_possible) THEN st
       ELSE IF ~is_stair_edge /\ SameSourceBaked(b, edge_data, n) THEN st
       ELSE
         LET collision == b.collision_field[n]
             stepped == StepWaveEdge(edge_data.wave_edge, PosF32(n))
             turn_penalty == TurnPenalty(stepped, max_lux_possible)
             transparency == Transparency(is_stair_edge, collision, turn_penalty)
             src_light_lux == MulDiv(edge_data.wave_edge.src_light_lux,
                                     transparency[1], transparency[2])
             distance_travelled == edge_data.wave_edge.distance_travelled
             new_lux == NewLux(src_light_lux, distance_travelled)
             neighbour_lux == st.lfs[n].lux
             new_wave_edge ==
                 [stepped EXCEPT
                     !.distance_travelled = @ + 1,
                     !.src_light_lux = IF Dampened(neighbour_lux, new_lux)
                                       THEN Dampen(src_light_lux)
                                       ELSE src_light_lux]
         IN IF Negligible(neighbour_lux, new_lux) THEN st
            ELSE [lfs |-> [st.lfs EXCEPT ![n] = LitBy(@, edge_data.color, new_lux)],
                  queue |-> Append(st.queue,
                                   [position |-> n,
                                    wave_edge |-> new_wave_edge,
                                    source_id |-> edge_data.source_id,
                                    color |-> edge_data.color]),
                  count |-> st.count + 1,
                  fault |-> st.fault]

\* The loop over the four directions, each iteration working on the result of
\* the one before it.
ProcessDirections(b, st, edge_data, max_lux_possible, is_stair_edge, allowed) ==
    LET after1 == {ProcessDirection(b, st, edge_data, max_lux_possible, is_stair_edge,
                                    allowed, 1)}
        after2 == {ProcessDirection(b, s, edge_data, max_lux_possible, is_stair_edge,
                                    allowed, 2) : s \in after1}
        after3 == {ProcessDirection(b, s, edge_data, max_lux_possible, is_stair_edge,
                                    allowed, 3) : s \in after2}
        after4 == {ProcessDirection(b, s, edge_data, max_lux_possible, is_stair_edge,
                                    allowed, 4) : s \in after3}
    IN The(after4)

\* queue.pop_front(): the state without the front packet.
PopFront(st) == [st EXCEPT !.queue = Tail(@)]

\* Mutant of ProcessPacket: the queue is worked from its back, as a stack.
ProcessPacketFromBack(b, st) ==
    LET edge_data == st.queue[Len(st.queue)]
        popped == [st EXCEPT !.queue = SubSeq(@, 1, Len(@) - 1)]
        max_lux_possible == MaxLuxPossible(edge_data.wave_edge)
        is_stair_edge == edge_data.source_id = 0
        allowed == AllowedDirections(b, edge_data, is_stair_edge)
    IN IF TooDim(max_lux_possible) THEN popped
       ELSE IF ~allowed[1] THEN popped
       ELSE ProcessDirections(b, popped, edge_data, max_lux_possible,
                              is_stair_edge, allowed[2])

\* Mutant of ProcessPacket: a packet that is too dim or has no baked directions
\* is pushed back on the queue instead of being dropped.
ProcessPacketRequeueing(b, st) ==
    LET edge_data == Head(st.queue)
        popped == PopFront(st)
        max_lux_possible == MaxLuxPossible(edge_data.wave_edge)
        is_stair_edge == edge_data.source_id = 0
        allowed == AllowedDirections(b, edge_data, is_stair_edge)
    IN IF TooDim(max_lux_possible) \/ ~allowed[1]
       THEN [popped EXCEPT !.queue = Append(@, edge_data)]
       ELSE ProcessDirections(b, popped, edge_data, max_lux_possible,
                              is_stair_edge, allowed[2])

\* One iteration of the `while let Some(edge_data) = queue.pop_front()` loop;
\* st = [lfs, queue, count, fault] with a non-empty queue.
ProcessPacket(b, st) ==
    LET edge_data == Head(st.queue)
        popped == PopFront(st)
        max_lux_possible == MaxLuxPossible(edge_data.wave_edge)
        is_stair_edge == edge_data.source_id = 0
        allowed == AllowedDirections(b, edge_data, is_stair_edge)
    IN IF TooDim(max_lux_possible) THEN popped
       ELSE IF ~allowed[1] THEN popped
       ELSE ProcessDirections(b, popped, edge_data, max_lux_possible,
                              is_stair_edge, allowed[2])

\* The packet a seed of bf.prebaked_wave_edges is enqueued as.
SeedPacket(edge_data) ==
    [position |-> edge_data.position,
     wave_edge |-> edge_data.wave_edge,
     source_id |-> edge_data.source_id,
     color |-> edge_data.color]

\* Mutant of SeedQueue: the seeds of inactive sources are enqueued too.
RECURSIVE SeedQueueUnfiltered(_, _, _)
SeedQueueUnfiltered(wave_edges, active, i) ==
    IF i > Len(wave_edges) THEN <<>>
    ELSE <<SeedPacket(wave_edges[i])>> \o SeedQueueUnfiltered(wave_edges, active, i + 1)

\* The queue after the seeding loop over bf.prebaked_wave_edges.
RECURSIVE SeedQueue(_, _, _)
SeedQueue(wave_edges, active, i) ==
    IF i > Len(wave_edges) THEN <<>>
    ELSE LET rest == SeedQueue(wave_edges, active, i + 1)
         IN IF wave_edges[i].source_id \notin active THEN rest
            ELSE <<SeedPacket(wave_edges[i])>> \o rest

\* The queue loop run to its end.
RECURSIVE Drain(_, _)
Drain(b, st) ==
    The({IF s.queue = <<>> \/ s.fault THEN s ELSE Drain(b, ProcessPacket(b, s)) : s \in {st}})

propagate_from_wave_edges(b, field, active) ==
    Drain(b, [lfs |-> field,
              queue |-> SeedQueue(b.prebaked_wave_edges, active, 1),
              count |-> 0,
              fault |-> FALSE])

\* ------------------------------------------- identify_active_light_sources
\* Mutant of ActiveFrom: the emission flag of the lamp is not looked at.
RECURSIVE ActiveFromAnyLamp(_, _, _)
ActiveFromAnyLamp(b, q, i) ==
    IF i > Len(b.light_sources) THEN {}
    ELSE LET entity == b.light_sources[i].entity
             ndidx == b.light_sources[i].ndidx
             rest == ActiveFromAnyLamp(b, q, i + 1)
         IN IF entity \notin DOMAIN q THEN rest
            ELSE IF b.prebaked_lighting[ndidx].source_id # NoSource
                 THEN {b.prebaked_lighting[ndidx].source_id} \cup rest
                 ELSE rest

\* The loop over bf.prebaked_metadata.light_sources from entry i on.
RECURSIVE ActiveFrom(_, _, _)
ActiveFrom(b, q, i) ==
    IF i > Len(b.light_sources) THEN {}
    ELSE LET entity == b.light_sources[i].entity
             ndidx == b.light_sources[i].ndidx
             rest == ActiveFrom(b, q, i + 1)
         IN IF entity \notin DOMAIN q THEN rest
            ELSE IF q[entity].light_emission_enabled
                      /\ b.prebaked_lighting[ndidx].source_id # NoSource
                 THEN {b.prebaked_lighting[ndidx].source_id} \cup rest
                 ELSE rest

identify_active_light_sources(b, q) == ActiveFrom(b, q, 1)

\* -------------------------------------------- apply_prebaked_contributions
\* All the orders in which a hash set can be iterated.
IterationOrders(S) ==
    {o \in [1 .. Cardinality(S) -> S] : \A i, j \in DOMAIN o : i # j => o[i] # o[j]}

\* Mutant of MarkActive: every iteration starts again from an all-false vector.
RECURSIVE MarkActiveReset(_, _, _)
MarkActiveReset(v, order, i) ==
    IF i > Len(order) THEN [panic |-> FALSE, v_active |-> v]
    ELSE IF order[i] + 1 > Len(v) THEN [panic |-> TRUE, v_active |-> v]
    ELSE MarkActiveReset([[k \in DOMAIN v |-> FALSE] EXCEPT ![order[i] + 1] = TRUE],
                         order, i + 1)

\* v_active after `for source_id in active_source_ids { v_active[id] = true }`,
\* the set iterated in `order`; panic = an index past the end of v_active.
RECURSIVE MarkActive(_, _, _)
MarkActive(v, order, i) ==
    IF i > Len(order) THEN [panic |-> FALSE, v_active |-> v]
    ELSE IF order[i] + 1 > Len(v) THEN [panic |-> TRUE, v_active |-> v]
    ELSE MarkActive([v EXCEPT ![order[i] + 1] = TRUE], order, i + 1)

VActive(b, order) ==
    MarkActive([i \in 1 .. Len(b.prebaked_propagation) |-> FALSE], order, 1)

\* Mutant of LitTiles: every tile with a baked source is lit, active or not.
LitTilesOfAnySource(b, v_active) ==
    {t \in Tiles : b.prebaked_lighting[t].source_id # NoSource}

\* The tiles whose baked source is marked active.
LitTiles(b, v_active) ==
    {t \in Tiles : /\ b.prebaked_lighting[t].source_id # NoSource
                   /\ v_active[b.prebaked_lighting[t].source_id + 1]}

\* v_active[source_id as usize] is indexed past its end for some tile.
TileIndexPanics(b, v_active) ==
    \E t \in Tiles : /\ b.prebaked_lighting[t].source_id # NoSource
                     /\ b.prebaked_lighting[t].source_id + 1 > Len(v_active)

\* The entry written to a tile lit by its baked source.
BakedEntry(prebaked_data) == [lux |-> prebaked_data.lux, color |-> prebaked_data.color]

\* apply_prebaked_contributions: [panic, lfs, tiles_lit].
apply_prebaked_contributions(order, b, field) ==
    LET va == VActive(b, order)
    IN IF va.panic \/ TileIndexPanics(b, va.v_active)
       THEN [panic |-> TRUE, lfs |-> field, tiles_lit |-> 0]
       ELSE LET lit == LitTiles(b, va.v_active)
            IN [panic |-> FALSE,
                lfs |-> [t \in Tiles |-> IF t \in lit
                                         THEN BakedEntry(b.prebaked_lighting[t])
                                         ELSE field[t]],
                tiles_lit |-> Cardinality(lit)]

\* ------------------------------------------------ propagate_through_stairs
\* indexed_iter order of an Array3 of the given size: the last index runs
\* fastest; the n-th index it yields, and how many it yields.
IndexedIter(size, n) ==
    <<(n - 1) \div (size[2] * size[3]), ((n - 1) \div size[3]) % size[2], (n - 1) % size[3]>>

IndexedLen(size) == size[1] * size[2] * size[3]

TileOrder == [n \in 1 .. IndexedLen(map_size) |-> IndexedIter(map_size, n)]

\* Mutant of StairLux: the stair passes its light on undiminished.
StairLuxFull(stair_lux) == stair_lux

\* stair_lux * STAIR_PROPAGATION, STAIR_PROPAGATION = 0.99
StairLux(stair_lux) == MulDiv(stair_lux, 99, 100)

\* The target of a stair tile is inside the board.
TargetInBounds(b, target_z) == ~(target_z < 0 \/ target_z >= b.map_size[3])

\* Mutant of StairBringsLight: the comparison is turned around.
StairTakesLight(target_lux, stair_lux) == target_lux > StairLux(stair_lux)

\* The stair brings more light to the target.
StairBringsLight(target_lux, stair_lux) == target_lux < StairLux(stair_lux)

\* One iteration of the stair loop; st = [lfs, count].
StairStep(b, st, pos) ==
    LET collision == b.collision_field[pos]
        stair_lux == st.lfs[pos].lux
        stair_color == st.lfs[pos].color
        target_z == pos[3] + collision.stair_offset
        target_pos == <<pos[1], pos[2], target_z>>
    IN IF collision.stair_offset = 0 THEN st
       ELSE IF ~TargetInBounds(b, target_z) THEN st
       ELSE IF StairBringsLight(st.lfs[target_pos].lux, stair_lux)
       THEN LET old_lux == st.lfs[target_pos].lux
            IN [lfs |-> [st.lfs EXCEPT ![target_pos] =
                            [lux |-> StairLux(stair_lux),
                             color |-> IF old_lux > 0
                                       THEN blend_colors(@.color, old_lux, stair_color,
                                                         StairLux(stair_lux))
                                       ELSE stair_color]],
                count |-> st.count + 1]
       ELSE st

RECURSIVE StairLoop(_, _, _)
StairLoop(b, st, n) ==
    IF n > IndexedLen(b.map_size) THEN st
    ELSE The({StairLoop(b, StairStep(b, s, IndexedIter(b.map_size, n)), n + 1) : s \in {st}})

propagate_through_stairs(b, field) == StairLoop(b, [lfs |-> field, count |-> 0], 1)

\* ------------------------------------------------- create_stair_wave_edges
\* The wave edge created for the stair tile pos, <<>> when none is.
StairWaveEdge(b, field, pos) ==
    LET collision == b.collision_field[pos]
        stair_lux == field[pos].lux
        target_z == pos[3] + collision.stair_offset
        target_pos == <<pos[1], pos[2], target_z>>
        distance == 1
    IN IF collision.stair_offset = 0 THEN <<>>
       ELSE IF stair_lux <= 0 THEN <<>>
       ELSE IF ~TargetInBounds(b, target_z) THEN <<>>
       ELSE IF stair_lux <= field[target_pos].lux THEN <<>>
       ELSE <<[position |-> target_pos,
               source_id |-> 0,
               lux |-> stair_lux,
               color |-> field[pos].color,
               wave_edge |-> [src_light_lux |-> stair_lux * (distance * distance),
                              distance_travelled |-> distance,
                              current_pos |-> PosF32(target_pos),
                              iir_mean_pos |-> PosF32(target_pos),
                              iir_mean_iir_mean_pos |-> PosF32(pos)]]>>

RECURSIVE StairEdgeLoop(_, _, _)
StairEdgeLoop(b, field, n) ==
    IF n > Len(TileOrder) THEN <<>>
    ELSE StairWaveEdge(b, field, TileOrder[n]) \o StairEdgeLoop(b, field, n + 1)

\* Mutant of create_stair_wave_edges: the loop starts at the second tile.
create_stair_wave_edges_after_first(b, field) == StairEdgeLoop(b, field, 2)

create_stair_wave_edges(b, field) == StairEdgeLoop(b, field, 1)

\* ----------------------------------------------- update_exposure_and_stats
RECURSIVE SumQuot(_, _, _)
SumQuot(field, count, n) ==
    IF n > Len(TileOrder) THEN 0
    ELSE (field[TileOrder[n]].lux \div count) + SumQuot(field, count, n + 1)

RECURSIVE SumRem(_, _, _)
SumRem(field, count, n) ==
    IF n > Len(TileOrder) THEN 0
    ELSE (field[TileOrder[n]].lux % count) + SumRem(field, count, n + 1)

\* total_lux / count, the sum split so that it stays in range.
AvgLux(b, field) ==
    LET count == b.map_size[1] * b.map_size[2] * b.map_size[3]
    IN SumQuot(field, count, 1) + (SumRem(field, count, 1) \div count)

\* Mutant of ExposureLux: the mean itself, halved.
ExposureLuxHalfMean(b, field) == AvgLux(b, field) \div 2

\* (avg_lux + 2.0) / 2.0
ExposureLux(b, field) == (AvgLux(b, field) + 2 * LuxScale) \div 2

\* ------------------------------------------------------------- the inputs
Floor == [see_through |-> TRUE, player_free |-> TRUE, is_dynamic |-> FALSE, stair_offset |-> 0]
Wall == [see_through |-> FALSE, player_free |-> FALSE, is_dynamic |-> FALSE, stair_offset |-> 0]
OpenDoor == [see_through |-> TRUE, player_free |-> TRUE, is_dynamic |-> TRUE, stair_offset |-> 0]
Window == [see_through |-> TRUE, player_free |-> FALSE, is_dynamic |-> FALSE, stair_offset |-> 0]

\* The tile that may hold something else than open floor, and what it may hold.
OddTiles == {<<1, 0, 0>>}
OddKinds == {Floor, Wall, OpenDoor, Window}

\* The column of the board that may hold stairs, and the offsets a stair may have.
StairColumn == <<0, 0>>

\* The stair offsets of the two lowest floors of the stair column: no stairs, a
\* stair up from the ground floor, a stair down from the floor above it, the two
\* leading to each other, and stairs that lead out of the board (down from the
\* ground floor; up from the floor above it when that is the top floor).
StairLayouts == {<<0, 0>>, <<1, 0>>, <<0, -1>>, <<1, -1>>, <<-1, 1>>}

CollisionFields ==
    {[t \in Tiles |->
        [(IF t = odd THEN kind ELSE Floor) EXCEPT
            !.stair_offset = IF <<t[1], t[2]>> = StairColumn /\ t[3] + 1 \in DOMAIN stairs
                             THEN stairs[t[3] + 1]
                             ELSE 0]] :
     odd \in OddTiles, kind \in OddKinds, stairs \in StairLayouts}

\* The baked sources: source 1 lights TileA, source 2 lights TileB and, in some
\* bakes, a source with id 0 lights TileC on the floor above TileA.
Sources == {0, 1, 2}
TileA == <<0, 0, 0>>
TileB == <<2, 0, 0>>
TileC == <<0, 0, 1>>
Red == <<ColorScale, 0, 0>>
Blue == <<0, 0, ColorScale>>
Green == <<0, ColorScale, 0>>
LuxPairs == {<<4 * LuxScale, 1 * LuxScale>>, <<1 * LuxScale, 4 * LuxScale>>,
             <<2 * LuxScale, 0>>}
LuxC == 2 * LuxScale

NoBake == [source_id |-> NoSource, lux |-> 0, color |-> <<0, 0, 0>>]

PrebakedLightings ==
    {[t \in Tiles |->
        IF t = TileA THEN [source_id |-> 1, lux |-> lp[1], color |-> Red]
        ELSE IF t = TileB THEN [source_id |-> 2, lux |-> lp[2], color |-> Blue]
        ELSE IF t = TileC /\ withC THEN [source_id |-> 0, lux |-> LuxC, color |-> Green]
        ELSE NoBake] :
     lp \in LuxPairs, withC \in BOOLEAN}

\* The baked wave edge of the tile pos of a baked lighting.
BakedSeed(lighting, pos) ==
    [position |-> pos,
     source_id |-> lighting[pos].source_id,
     lux |-> lighting[pos].lux,
     color |-> lighting[pos].color,
     wave_edge |-> [src_light_lux |-> lighting[pos].lux,
                    distance_travelled |-> 1,
                    current_pos |-> PosF32(pos),
                    iir_mean_pos |-> PosF32(pos),
                    iir_mean_iir_mean_pos |-> PosF32(pos)]]

\* bf.prebaked_wave_edges: the wave edges of TileA and TileB, in either order.
WaveEdgeLists(lighting) ==
    {<<BakedSeed(lighting, TileA), BakedSeed(lighting, TileB)>>,
     <<BakedSeed(lighting, TileB), BakedSeed(lighting, TileA)>>}

XY == (0 .. SizeX - 1) \X (0 .. SizeY - 1)
AllDirections == <<TRUE, TRUE, TRUE, TRUE>>
AlongX == <<FALSE, FALSE, TRUE, TRUE>>

\* bf.prebaked_propagation: one mask array per source; an array may be narrower
\* than the board, and the table may be shorter than the source ids in use.
PropagationTables ==
    {[s \in 1 .. Cardinality(Sources) |-> [xy \in XY |-> AllDirections]],
     [s \in 1 .. Cardinality(Sources) |->
        IF s = 2 THEN [xy \in XY |-> AlongX]
        ELSE [xy \in {p \in XY : p[1] > 0} |-> AllDirections]],
     [s \in 1 .. Cardinality(Sources) - 1 |-> [xy \in XY |-> AllDirections]]}

\* bf.prebaked_metadata.light_sources: entity 0 is the lamp of TileA, entity 1 the
\* lamp of TileB, entity 2 a lamp registered on TileC (which a source may not claim).
LightSources ==
    <<[entity |-> 0, ndidx |-> TileA],
      [entity |-> 1, ndidx |-> TileB],
      [entity |-> 2, ndidx |-> TileC]>>

\* The query: entity 2 exists and emits; entities 0 and 1 may be off or despawned.
Queries ==
    {q \in UNION {[D -> [light_emission_enabled : BOOLEAN]] : D \in SUBSET {0, 1, 2}} :
        2 \in DOMAIN q /\ q[2].light_emission_enabled}

DarkField == [t \in Tiles |-> DefaultLight]

\* A board of the given collision field and baked data.
Board(cf, pl, we, pp) ==
    [map_size |-> map_size,
     collision_field |-> cf,
     prebaked_lighting |-> pl,
     prebaked_wave_edges |-> we,
     prebaked_propagation |-> pp,
     light_sources |-> LightSources,
     exposure_lux |-> LuxScale,
     light_field |-> DarkField]

\* Boards built around one comparison of the propagation loop: TileA and TileB
\* are baked so that the light the packet of TileA leaves on the tile between
\* them is exactly 4 x, 5 x or 2 x what the packet of TileB compares it with;
\* TileB is an open door; a stair leads up from TileA to a floor where TileD, a
\* dark tile baked for source 0, lies next to the stair's destination.
TileD == <<1, 0, 1>>
TileBetween == <<1, 0, 0>>
OpenBoard == [t \in Tiles |-> Floor]
FullTable == [s \in 1 .. Cardinality(Sources) |-> [xy \in XY |-> AllDirections]]

Bake(luxA, luxB, withCD) ==
    [t \in Tiles |->
        IF t = TileA THEN [source_id |-> 1, lux |-> luxA, color |-> Red]
        ELSE IF t = TileB THEN [source_id |-> 2, lux |-> luxB, color |-> Blue]
        ELSE IF t = TileC /\ withCD THEN [source_id |-> 0, lux |-> LuxC, color |-> Green]
        ELSE IF t = TileD /\ withCD THEN [source_id |-> 0, lux |-> 0, color |-> Green]
        ELSE NoBake]

SeedsAB(pl) == <<BakedSeed(pl, TileA), BakedSeed(pl, TileB)>>

\* 44897960 x 0.98 / 1.1 = 40000000 = 4 x the lux of TileB.
FourTimesBoard ==
    LET pl == Bake(44897960, LuxScale, FALSE)
    IN Board(OpenBoard, pl, SeedsAB(pl), FullTable)

FiveTimesBoard ==
    LET pl == Bake(5 * LuxScale, LuxScale, FALSE)
    IN Board([OpenBoard EXCEPT ![TileBetween] = Window], pl, SeedsAB(pl), FullTable)

TwiceBoard ==
    LET pl == Bake(2 * LuxScale, LuxScale, FALSE)
    IN Board([OpenBoard EXCEPT ![TileBetween] = Window], pl, SeedsAB(pl), FullTable)

\* TileA's lamp leaves 2.4 on the window: more than five times the 0.4 that the
\* packet of TileB's lamp would add, and less than four times its reach of 1.0.
SixTimesBoard ==
    LET pl == Bake(6 * LuxScale, LuxScale, FALSE)
    IN Board([OpenBoard EXCEPT ![TileBetween] = Window], pl, SeedsAB(pl), FullTable)

\* TileA's lamp also baked 0.5 onto the tile beside it, as a baked flood does.
SameSourceBoard ==
    LET pl == [Bake(4 * LuxScale, LuxScale, FALSE) EXCEPT
                  ![TileBetween] = [source_id |-> 1, lux |-> LuxScale \div 2, color |-> Red]]
    IN Board(OpenBoard, pl, SeedsAB(pl), FullTable)

\* TileB's lamp baked three units of lux: its seed is alive, its children fall
\* below the epsilon of the dead-branch test.
DimBoard ==
    LET pl == Bake(4 * LuxScale, 3, FALSE)
    IN Board(OpenBoard, pl, SeedsAB(pl), FullTable)

DoorBoard ==
    LET pl == Bake(4 * LuxScale, LuxScale, FALSE)
    IN Board([OpenBoard EXCEPT ![TileB] = OpenDoor], pl, SeedsAB(pl), FullTable)

StairBoard ==
    LET pl == Bake(4 * LuxScale, LuxScale, TRUE)
    IN Board([OpenBoard EXCEPT ![TileA].stair_offset = 1], pl, SeedsAB(pl), FullTable)

BoundaryBoards ==
    {FourTimesBoard, FiveTimesBoard, TwiceBoard, SixTimesBoard, SameSourceBoard,
     DimBoard, DoorBoard, StairBoard}

\* Every registered lamp exists and emits.
AllLampsOn == [e \in {0, 1, 2} |-> [light_emission_enabled |-> TRUE]]

Init ==
    /\ \/ /\ \E cf \in CollisionFields, pl \in PrebakedLightings, pp \in PropagationTables :
               \E we \in WaveEdgeLists(pl) : bf = Board(cf, pl, we, pp)
          /\ qt \in Queries
       \/ /\ bf \in BoundaryBoards
          /\ qt = AllLampsOn
    /\ lfs = DarkField
    /\ active_source_ids = {}
    /\ queue = <<>>
    /\ propagation_count = 0
    /\ tiles_lit = 0
    /\ stair_count = 0
    /\ stair_wave_edges = <<>>
    /\ pc = "identify"

\* ------------------------------------------------------------ the actions
IdentifyActiveLightSources ==
    /\ pc = "identify"
    /\ active_source_ids' = identify_active_light_sources(bf, qt)
    /\ pc' = "apply"
    /\ UNCHANGED <<bf, qt, lfs, queue, propagation_count, tiles_lit, stair_count,
                   stair_wave_edges>>

ApplyPrebakedContributions ==
    /\ pc = "apply"
    /\ \E order \in IterationOrders(active_source_ids) :
        LET r == apply_prebaked_contributions(order, bf, lfs)
        IN /\ lfs' = r.lfs
           /\ tiles_lit' = r.tiles_lit
           /\ pc' = IF r.panic THEN "panicked" ELSE "stairs"
    /\ UNCHANGED <<bf, qt, active_source_ids, queue, propagation_count, stair_count,
                   stair_wave_edges>>

PropagateThroughStairs ==
    /\ pc = "stairs"
    /\ LET r == propagate_through_stairs(bf, lfs)
       IN /\ lfs' = r.lfs
          /\ stair_count' = r.count
    /\ pc' = "stair_edges"
    /\ UNCHANGED <<bf, qt, active_source_ids, queue, propagation_count, tiles_lit,
                   stair_wave_edges>>

CreateStairWaveEdges ==
    /\ pc = "stair_edges"
    /\ stair_wave_edges' = create_stair_wave_edges(bf, lfs)
    /\ pc' = "seed"
    /\ UNCHANGED <<bf, qt, lfs, active_source_ids, queue, propagation_count, tiles_lit,
                   stair_count>>

\* The board the host hands to the propagator: the stair wave edges of this pass
\* follow the baked wave edges in prebaked_wave_edges.
HostBoard(b, stair_edges) == [b EXCEPT !.prebaked_wave_edges = @ \o stair_edges]

\* propagate_from_wave_edges up to its queue loop.
SeedPropagation ==
    /\ pc = "seed"
    /\ queue' = SeedQueue(HostBoard(bf, stair_wave_edges).prebaked_wave_edges,
                          active_source_ids, 1)
    /\ propagation_count' = 0
    /\ pc' = "propagate"
    /\ UNCHANGED <<bf, qt, lfs, active_source_ids, tiles_lit, stair_count,
                   stair_wave_edges>>

\* One iteration of the queue loop of propagate_from_wave_edges.
PropagateStep ==
    /\ pc = "propagate"
    /\ queue # <<>>
    /\ \E r \in {ProcessPacket(bf, [lfs |-> lfs, queue |-> queue,
                                      count |-> propagation_count, fault |-> FALSE])} :
          /\ lfs' = r.lfs
          /\ queue' = r.queue
          /\ propagation_count' = r.count
          /\ pc' = IF r.fault THEN "out_of_bounds" ELSE pc
    /\ UNCHANGED <<bf, qt, active_source_ids, tiles_lit, stair_count, stair_wave_edges>>

\* The queue is exhausted: propagate_from_wave_edges returns.
PropagateReturn ==
    /\ pc = "propagate"
    /\ queue = <<>>
    /\ pc' = "exposure"
    /\ UNCHANGED <<bf, qt, lfs, active_source_ids, queue, propagation_count, tiles_lit,
                   stair_count, stair_wave_edges>>

UpdateExposureAndStats ==
    /\ pc = "exposure"
    /\ bf' = [bf EXCEPT !.exposure_lux = ExposureLux(bf, lfs), !.light_field = lfs]
    /\ pc' = "done"
    /\ UNCHANGED <<qt, lfs, active_source_ids, queue, propagation_count, tiles_lit,
                   stair_count, stair_wave_edges>>

Next ==
    \/ IdentifyActiveLightSources
    \/ ApplyPrebakedContributions
    \/ PropagateThroughStairs
    \/ CreateStairWaveEdges
    \/ SeedPropagation
    \/ PropagateStep
    \/ PropagateReturn
    \/ UpdateExposureAndStats

Spec == Init /\ [][Next]_vars

\* The queue loop pops the front packet (and may append its children) whenever the
\* queue is not empty: the step of the loop, as the queue shows it.
LoopAdvances ==
    /\ pc = "propagate"
    /\ queue # <<>>
    /\ \/ queue' = Tail(queue)
       \/ /\ Len(queue') >= Len(queue)
          /\ SubSeq(queue', 1, Len(queue) - 1) = Tail(queue)

\* The pass is one synchronous call that nothing suspends: the queue loop keeps
\* popping while the queue holds a packet, and returns when it is empty.
LiveSpec == Spec /\ WF_queue(LoopAdvances) /\ WF_vars(PropagateReturn)

\* ------------------------------------------------ the propagator on one seed
\* propagate_from_wave_edges is a public function of bf and the light field;
\* here it runs on an open, dark board with a single seed whose position
\* history is drawn from the tiles of the ground floor and their IIR means.
ProbePosition == TileBetween

GroundTiles == {t \in Tiles : t[3] = 0}

ProbeMeans == {PosF32(t) : t \in GroundTiles}

ProbeTargets ==
    {t \in GroundTiles :
        \E k \in DOMAIN directions :
            t = <<ProbePosition[1] + directions[k][1], ProbePosition[2] + directions[k][2],
                  ProbePosition[3] + directions[k][3]>>}

ProbeMeansOfMeans(mean) ==
    ProbeMeans \cup {apply_iir_filter(mean, PosF32(t), IIR_FACTOR_1) : t \in ProbeTargets}

ProbeSeeds ==
    {[position |-> ProbePosition,
      source_id |-> 1,
      lux |-> lux,
      color |-> Red,
      wave_edge |-> [src_light_lux |-> lux,
                     distance_travelled |-> dist,
                     current_pos |-> PosF32(ProbePosition),
                     iir_mean_pos |-> mean,
                     iir_mean_iir_mean_pos |-> mm]] :
        lux \in {LuxScale \div 10, 4 * LuxScale}, dist \in {1, 2},
        mean \in ProbeMeans, mm \in UNION {ProbeMeansOfMeans(m) : m \in ProbeMeans}}

ProbeBoard(seed) ==
    Board(OpenBoard, [t \in Tiles |-> NoBake], <<seed>>, FullTable)

ProbeInit ==
    /\ \E seed \in ProbeSeeds :
          /\ bf = ProbeBoard(seed)
          /\ queue = <<SeedPacket(seed)>>
    /\ qt = AllLampsOn
    /\ lfs = DarkField
    /\ active_source_ids = {1}
    /\ propagation_count = 0
    /\ tiles_lit = 0
    /\ stair_count = 0
    /\ stair_wave_edges = <<>>
    /\ pc = "propagate"

ProbeNext == PropagateStep \/ PropagateReturn \/ UpdateExposureAndStats

ProbeSpec == ProbeInit /\ [][ProbeNext]_vars

\* ------------------------------------------------------ the stair tower
\* propagate_through_stairs called twice in a row on a tower: one column that is
\* one floor higher than the board, every tile of it a stair up, a stair down or
\* no stair, every tile dark, lit or brightly lit.
TowerSize == <<1, 1, SizeZ + 1>>
TowerTiles == {<<0, 0, z>> : z \in 0 .. SizeZ}
TowerOffsets == [TowerTiles -> {-1, 0, 1}]
TowerColor(t) == IF t[3] % 2 = 0 THEN Red ELSE Blue
TowerFields ==
    {[t \in TowerTiles |-> IF lux[t] = 0 THEN DefaultLight
                           ELSE [lux |-> lux[t], color |-> TowerColor(t)]] :
     lux \in [TowerTiles -> {0, LuxScale, 4 * LuxScale}]}

TowerBoard(offsets) ==
    [map_size |-> TowerSize,
     collision_field |-> [t \in TowerTiles |-> [Floor EXCEPT !.stair_offset = offsets[t]]],
     prebaked_lighting |-> [t \in TowerTiles |-> NoBake],
     prebaked_wave_edges |-> <<>>,
     prebaked_propagation |-> FullTable,
     light_sources |-> <<>>,
     exposure_lux |-> LuxScale,
     light_field |-> [t \in TowerTiles |-> DefaultLight]]

TowerInit ==
    /\ \E offsets \in TowerOffsets : bf = TowerBoard(offsets)
    /\ lfs \in TowerFields
    /\ qt = AllLampsOn
    /\ active_source_ids = {}
    /\ queue = <<>>
    /\ propagation_count = 0
    /\ tiles_lit = 0
    /\ stair_count = 0
    /\ stair_wave_edges = <<>>
    /\ pc = "stairs"

\* A second call of propagate_through_stairs, right after the first.
PropagateThroughStairsAgain ==
    /\ pc = "stair_edges"
    /\ LET r == propagate_through_stairs(bf, lfs)
       IN /\ lfs' = r.lfs
          /\ stair_count' = r.count
    /\ pc' = "stairs_again"
    /\ UNCHANGED <<bf, qt, active_source_ids, queue, propagation_count, tiles_lit,
                   stair_wave_edges>>

TowerNext == PropagateThroughStairs \/ PropagateThroughStairsAgain

TowerSpec == TowerInit /\ [][TowerNext]_vars

\* ------------------------------------------------------------ properties
LuxOf(field) == [t \in Tiles |-> field[t].lux]

\* The light field the propagator starts from in this pass.
FieldBeforePropagation(order) ==
    propagate_through_stairs(bf, apply_prebaked_contributions(order, bf, DarkField).lfs).lfs

\* A tile that received light it was not baked with.
LitByPropagation(t) == lfs[t].lux > 0 /\ bf.prebaked_lighting[t].source_id = NoSource

\* C1: after a full pass on a zero-reset light field every tile has lux >= 0, in
\* the working field and in the field stored on the board, for every collision
\* layout and every set of active sources.
C1_LuxNonNegative ==
    pc = "done" => \A t \in Tiles : lfs[t].lux >= 0 /\ bf.light_field[t].lux >= 0

C1_Witness ==
    /\ pc = "done"
    /\ propagation_count > 0
    /\ stair_count > 0
    /\ \E t \in Tiles : LitByPropagation(t)

\* The reorderings of a seed list.
Reorderings(list) ==
    {[i \in DOMAIN list |-> list[o[i]]] : o \in IterationOrders(DOMAIN list)}

IsActiveSeed(edge_data) == edge_data.source_id \in active_source_ids

\* The final lux of the propagation run on the baked seed list reordered as `list`.
LuxWithSeeds(list) ==
    LuxOf(propagate_from_wave_edges(
              HostBoard([bf EXCEPT !.prebaked_wave_edges = list], stair_wave_edges),
              FieldBeforePropagation(CHOOSE o \in IterationOrders(active_source_ids) : TRUE),
              active_source_ids).lfs)

C3_QueueExhausted == (pc = "propagate") ~> (pc = "exposure" /\ queue = <<>>)

C3_Witness == pc = "exposure" /\ queue = <<>> /\ propagation_count >= 8

\* C4 as claimed: a source id without an entry in the baked propagation table
\* never makes the pass fault.
C4_NeverFaults == pc # "panicked"

\* The pass from the stair leak on, run on the field `applied` that
\* apply_prebaked_contributions left.
RunPassFrom(b, active, applied) ==
    LET leaked == propagate_through_stairs(b, applied)
        edges == create_stair_wave_edges(b, leaked.lfs)
        propagated == propagate_from_wave_edges(HostBoard(b, edges), leaked.lfs, active)
    IN [lfs |-> propagated.lfs, exposure_lux |-> ExposureLux(b, propagated.lfs)]

\* The results of the whole pass on the board b and the query q, one for every
\* order in which the active-source hash set can be iterated.
RunPass(b, q) ==
    LET active == identify_active_light_sources(b, q)
        applied == {apply_prebaked_contributions(order, b, DarkField).lfs :
                        order \in IterationOrders(active)}
    IN {RunPassFrom(b, active, field) : field \in applied}

\* The board as it was handed to the pass.
InputBoard == [bf EXCEPT !.exposure_lux = LuxScale, !.light_field = DarkField]

\* C5: the light field (lux and colour of every tile) and the exposure a pass ends
\* with are those of the pass run again on the same inputs, whatever the order in
\* which the active-source hash set is iterated.
C5_Deterministic ==
    pc = "done" =>
        \A again \in RunPass(InputBoard, qt) :
            /\ again.lfs = lfs
            /\ again.lfs = bf.light_field
            /\ again.exposure_lux = bf.exposure_lux

C5_Witness ==
    /\ pc = "done"
    /\ Cardinality(active_source_ids) >= 2
    /\ propagation_count > 0

\* The neighbour of a position in direction dir_idx.
Neighbour(pos, dir_idx) ==
    <<pos[1] + directions[dir_idx][1], pos[2] + directions[dir_idx][2],
      pos[3] + directions[dir_idx][3]>>

\* The packets the step appended to the queue.
Children == SubSeq(queue', Len(queue), Len(queue'))

\* Direction dir_idx of the front packet leads to a dark tile of the board that
\* the packet is let into: it is alive, the direction is allowed, and the tile
\* was not baked for the packet's source.
OpenDirection(dir_idx) ==
    LET edge_data == Head(queue)
        is_stair_edge == edge_data.source_id = 0
        allowed == AllowedDirections(bf, edge_data, is_stair_edge)
        n == Neighbour(edge_data.position, dir_idx)
    IN /\ ~TooDim(MaxLuxPossible(edge_data.wave_edge))
       /\ allowed[1] /\ allowed[2][dir_idx]
       /\ n \in Tiles
       /\ lfs[n].lux = 0
       /\ is_stair_edge \/ ~SameSourceBaked(bf, edge_data, n)

\* C6: in every iteration of the queue loop no index leaves the arrays, every
\* packet in the queue stands on a tile of the board, only tiles of the board
\* next to the popped packet change, and every direction of the packet that
\* leads to an open dark tile of the board gets its child packet, whether or
\* not another direction of the same packet leads out of the board.
C6_BoundsSafety ==
    [][(pc = "propagate" /\ queue # <<>>) =>
         /\ pc' # "out_of_bounds"
         /\ \A i \in DOMAIN queue' : queue'[i].position \in Tiles
         /\ \A t \in Tiles :
               lfs'[t] # lfs[t] =>
                   \E dir_idx \in DOMAIN directions :
                       t = Neighbour(Head(queue).position, dir_idx)
         /\ DOMAIN lfs' = Tiles
         /\ \A dir_idx \in DOMAIN directions :
               OpenDirection(dir_idx) =>
                   \E i \in DOMAIN Children :
                       /\ Children[i].position = Neighbour(Head(queue).position, dir_idx)
                       /\ Children[i].source_id = Head(queue).source_id]_vars

\* A packet in a corner of the board has been processed: its child stands on a
\* neighbour tile of the board and nothing was queued for the two directions
\* that lead out of it.
C6_Witness ==
    /\ pc = "propagate"
    /\ propagation_count > 0
    /\ \E i \in DOMAIN queue :
          /\ queue[i].wave_edge.distance_travelled = 2
          /\ queue[i].position \in {<<1, 0, 0>>, <<0, 1, 0>>}
          /\ queue[i].source_id = 1

\* The tiles whose baked source is in the active set.
ActiveBaked ==
    {t \in Tiles : /\ bf.prebaked_lighting[t].source_id # NoSource
                   /\ bf.prebaked_lighting[t].source_id \in active_source_ids}

\* C7: when apply_prebaked_contributions returns, every tile whose baked source
\* is present and active holds its baked lux and colour, every other tile is
\* exactly as it was, and the returned count is the number of tiles overwritten.
C7_PrebakedContract ==
    [][(pc = "apply" /\ pc' = "stairs") =>
         /\ \A t \in Tiles :
               lfs'[t] = IF t \in ActiveBaked
                         THEN [lux |-> bf.prebaked_lighting[t].lux,
                               color |-> bf.prebaked_lighting[t].color]
                         ELSE lfs[t]
         /\ tiles_lit' = Cardinality(ActiveBaked)]_vars

\* The prebaked light was applied with one baked source active and another not.
C7_Witness ==
    /\ pc = "stairs"
    /\ tiles_lit = 1
    /\ \E t \in Tiles : /\ bf.prebaked_lighting[t].source_id # NoSource
                         /\ bf.prebaked_lighting[t].source_id \notin active_source_ids
                         /\ bf.prebaked_lighting[t].lux > 0
                         /\ lfs[t] = DefaultLight

\* C8: identify_active_light_sources returns exactly the source ids baked at
\* the tile of a registered lamp that still exists and has its emission enabled;
\* a registered lamp that no longer exists contributes nothing.
C8_ActiveSetExact ==
    pc # "identify" =>
        active_source_ids =
            {s \in Sources :
                \E i \in DOMAIN bf.light_sources :
                    /\ bf.light_sources[i].entity \in DOMAIN qt
                    /\ qt[bf.light_sources[i].entity].light_emission_enabled
                    /\ bf.prebaked_lighting[bf.light_sources[i].ndidx].source_id = s}

\* The set was computed with one lamp emitting, one switched off and one gone.
C8_Witness ==
    /\ pc = "apply"
    /\ 0 \notin DOMAIN qt
    /\ 1 \in DOMAIN qt /\ ~qt[1].light_emission_enabled
    /\ active_source_ids = {0}

\* C9: a pass whose active set is empty leaves every tile at lux 0, creates no
\* stair wave edge and performs no propagation step.
C9_NoSourceNoLight ==
    (pc # "identify" /\ active_source_ids = {}) =>
        /\ \A t \in Tiles : lfs[t].lux = 0 /\ bf.light_field[t].lux = 0
        /\ stair_wave_edges = <<>>
        /\ stair_count = 0
        /\ queue = <<>>
        /\ propagation_count = 0

\* A pass without active sources ran to its end on a board with stairs and
\* baked seeds.
C9_Witness ==
    /\ pc = "done"
    /\ active_source_ids = {}
    /\ \E t \in Tiles : bf.collision_field[t].stair_offset # 0
    /\ \E i \in DOMAIN bf.prebaked_wave_edges : bf.prebaked_wave_edges[i].lux > 0

\* The stair tiles whose destination is on the board, with their destination.
StairPairs ==
    {<<S, <<S[1], S[2], S[3] + bf.collision_field[S].stair_offset>>>> :
        S \in {t \in Tiles : /\ bf.collision_field[t].stair_offset # 0
                             /\ t[3] + bf.collision_field[t].stair_offset \in 0 .. SizeZ - 1}}

\* C10: for every stair tile S with its destination D on the board, the lux of
\* D after propagate_through_stairs is at least the smaller of the lux of D and
\* 0.99 x the lux of S before the call.
C10_StairMonotone ==
    [][pc = "stairs" =>
         \A p \in StairPairs :
             lfs'[p[2]].lux >= Min(lfs[p[2]].lux, MulDiv(lfs[p[1]].lux, 99, 100))]_vars

\* The stairs ran on a board with two stairs that lead to each other, both lit,
\* and one of them gained light.
C10_Witness ==
    /\ pc = "stair_edges"
    /\ stair_count > 0
    /\ Cardinality(StairPairs) = 2
    /\ \A p \in StairPairs : bf.prebaked_lighting[p[1]].source_id \in active_source_ids

\* C11 as claimed: every stair wave edge of the pass is enqueued by the seeding
\* loop of propagate_from_wave_edges, whether or not 0 is in the active set.
C11_StairSeedsEnqueued ==
    [][pc = "seed" =>
         \A i \in DOMAIN stair_wave_edges :
             \E j \in DOMAIN queue' : queue'[j] = SeedPacket(stair_wave_edges[i])]_vars

\* The packet popped by the step, and what it could at most add to a tile.
Parent == Head(queue)
ParentDistance == Parent.wave_edge.distance_travelled
ParentMaxLux == Parent.wave_edge.src_light_lux \div (ParentDistance * ParentDistance)

\* The lux the step added to the tile t.
Added(t) == lfs'[t].lux - lfs[t].lux

\* The turn penalty of the step that made the child packet c, in thousandths.
PenaltyOf(c) == TurnPenalty(c.wave_edge, ParentMaxLux)

\* The transparency table of the specification, as <<numerator, denominator>>.
TableTransparency(stair_origin, collision, penalty) ==
    CASE stair_origin /\ collision.see_through -> <<9, 10>>
      [] stair_origin /\ ~collision.see_through -> <<1, 10>>
      [] ~stair_origin /\ collision.see_through /\ collision.player_free
            /\ ~collision.is_dynamic -> <<980, IF penalty < 1500 THEN penalty ELSE 1500>>
      [] ~stair_origin /\ collision.see_through
            /\ ~(collision.player_free /\ ~collision.is_dynamic) -> <<4, 10>>
      [] ~stair_origin /\ ~collision.see_through -> <<5, 100>>

\* src_light_lux x transparency of the step that made the child packet c.
TableCarried(c) ==
    LET tr == TableTransparency(Parent.source_id = 0, bf.collision_field[c.position],
                                PenaltyOf(c))
    IN MulDiv(Parent.wave_edge.src_light_lux, tr[1], tr[2])

\* C12: in every step the light carried on is src_light_lux x the transparency
\* the table gives for the packet kind and the collision flags of the neighbour;
\* the neighbour gains that over distance^2, which for an opaque wall is
\* src_light_lux x 0.05 / distance^2 and not zero (as far as the fixed-point
\* unit of lux resolves it).
C12_TransparencyTable ==
    [][(pc = "propagate" /\ queue # <<>>) =>
         \A i \in DOMAIN Children :
             LET c == Children[i]
                 carried == TableCarried(c)
             IN /\ Added(c.position) = carried \div (ParentDistance * ParentDistance)
                /\ c.wave_edge.src_light_lux \in {carried, MulDiv(carried, 10, 11)}
                /\ (~bf.collision_field[c.position].see_through /\ Parent.source_id # 0
                        /\ ParentMaxLux >= 20)
                      => Added(c.position) > 0]_vars

\* A packet of a lamp has stepped into an opaque wall and left light on it.
C12_Witness ==
    /\ pc = "propagate"
    /\ bf.collision_field[TileBetween] = Wall
    /\ lfs[TileBetween].lux > 0
    /\ \E i \in DOMAIN queue : queue[i].position = TileBetween /\ queue[i].source_id # 0

\* The popped packet is a fresh seed of a lamp: it has travelled 1 and has no
\* history of movement, so that its first step is no turn.
FreshSeed ==
    /\ Parent.source_id # 0
    /\ ParentDistance = 1
    /\ Parent.wave_edge.iir_mean_pos = Parent.wave_edge.current_pos
    /\ Parent.wave_edge.iir_mean_iir_mean_pos = Parent.wave_edge.current_pos

\* The turn penalty of a step without a turn: 1.0, and 0.1 more for a packet
\* whose maximum plausible lux is above 0.2.
NoTurnPenalty == IF ParentMaxLux * 10 > 2 * LuxScale THEN 1100 ELSE 1000

\* A navigable, see-through tile that is not dynamic.
OpenFloor(t) ==
    /\ bf.collision_field[t].player_free
    /\ bf.collision_field[t].see_through
    /\ ~bf.collision_field[t].is_dynamic

\* C13: when a fresh seed of a lamp (distance_travelled = 1, no turn) steps onto
\* a dark, navigable, see-through, non-dynamic tile, the tile gains
\* src_light_lux x 0.98 / turn_penalty / 1^2, which is more than 0: the division
\* uses the distance before the step.
C13_FirstStepLux ==
    [][(pc = "propagate" /\ queue # <<>> /\ FreshSeed) =>
         \A dir_idx \in DOMAIN directions :
             LET n == Neighbour(Parent.position, dir_idx)
             IN (OpenDirection(dir_idx) /\ OpenFloor(n)) =>
                    /\ lfs'[n].lux = MulDiv(Parent.wave_edge.src_light_lux, 980, NoTurnPenalty)
                    /\ lfs'[n].lux > 0]_vars

\* The seed on the open door of TileB has lit the dark floor tile next to it.
C13_Witness ==
    /\ pc = "propagate"
    /\ bf.collision_field[TileB] = OpenDoor
    /\ bf.prebaked_lighting[TileB].lux = LuxScale
    /\ lfs[<<2, 1, 0>>].lux = (LuxScale * 98) \div 110
    /\ \E i \in DOMAIN queue :
          /\ queue[i].position = <<2, 1, 0>>
          /\ queue[i].source_id = 2
          /\ queue[i].wave_edge.distance_travelled = 2

\* The positions of the seeds of a source in the propagator's seed list.
SeedPositions(source_id) ==
    LET seeds == HostBoard(bf, stair_wave_edges).prebaked_wave_edges
    IN {seeds[i].position : i \in {k \in DOMAIN seeds : seeds[k].source_id = source_id}}

\* The popped packet came from a seed of its source in a straight line along
\* direction dir_idx, over navigable, see-through, non-dynamic tiles.
StraightRun(dir_idx) ==
    /\ ParentDistance > 1
    /\ \E seed \in SeedPositions(Parent.source_id) :
          /\ Parent.position =
                 [k \in 1 .. 3 |-> seed[k] + (ParentDistance - 1) * directions[dir_idx][k]]
          /\ \A m \in 1 .. ParentDistance - 1 :
                 OpenFloor([k \in 1 .. 3 |-> seed[k] + m * directions[dir_idx][k]])

\* Two directions at a right angle.
RightAngle(i, j) ==
    directions[i][1] * directions[j][1] + directions[i][2] * directions[j][2] = 0

\* The tile was dark when the propagation started: neither lit by the baked
\* data of an active source nor the destination of a stair.
InitiallyDark(t) ==
    /\ t \notin ActiveBaked
    /\ \A p \in StairPairs : p[2] # t

\* The step put a child packet on the tile t.
ChildOn(t) == \E i \in DOMAIN Children : Children[i].position = t

\* In this step the straight path (direction i) and the path that turns
\* (direction j) both went on, onto open tiles that started dark; the turned
\* path added strictly less.
TurnAddsLess(i, j) ==
    LET ahead == Neighbour(Parent.position, i)
        aside == Neighbour(Parent.position, j)
    IN (/\ StraightRun(i) /\ RightAngle(i, j)
        /\ ChildOn(ahead) /\ ChildOn(aside)
        /\ OpenFloor(ahead) /\ OpenFloor(aside)
        /\ InitiallyDark(ahead) /\ InitiallyDark(aside))
       => Added(aside) < Added(ahead)

\* The board of the claim's premise: every tile navigable, see-through and
\* non-dynamic, nothing baked.
IdealBoard ==
    [bf EXCEPT !.collision_field = [t \in Tiles |-> Floor],
               !.prebaked_lighting = [t \in Tiles |-> NoBake]]

\* The lux a packet adds at the end of the path dirs when it walks it alone
\* over the dark IdealBoard (0 when the path dies out on the way).
RECURSIVE WalkAdded(_, _, _)
WalkAdded(edge_data, dirs, added) ==
    IF dirs = <<>> THEN added
    ELSE LET dark == [lfs |-> DarkField, queue |-> <<>>, count |-> 0, fault |-> FALSE]
             max_lux_possible == MaxLuxPossible(edge_data.wave_edge)
             after == IF TooDim(max_lux_possible) THEN dark
                      ELSE ProcessDirection(IdealBoard, dark, edge_data, max_lux_possible,
                                            edge_data.source_id = 0,
                                            <<TRUE, TRUE, TRUE, TRUE>>, Head(dirs))
         IN IF after.queue = <<>> THEN 0
            ELSE WalkAdded(after.queue[1], Tail(dirs),
                           after.lfs[after.queue[1].position].lux)

\* The tile a path of directions ends on.
RECURSIVE EndOf(_, _)
EndOf(pos, dirs) ==
    IF dirs = <<>> THEN pos ELSE EndOf(Neighbour(pos, Head(dirs)), Tail(dirs))

\* The paths of n steps from pos that stay on the map and never turn back.
PathsFrom(pos, n) ==
    {dirs \in [1 .. n -> DOMAIN directions] :
        /\ \A k \in 1 .. n : is_in_bounds(EndOf(pos, SubSeq(dirs, 1, k)), map_size)
        /\ \A k \in 1 .. n - 1 : directions[dirs[k]] # [i \in 1 .. 3 |-> 0 - directions[dirs[k + 1]][i]]}

StraightPath(dirs) == \A k \in DOMAIN dirs : dirs[k] = dirs[1]

\* From this seed every path with a turn adds strictly less at its end than a
\* straight path of the same number of steps.
TurnedPathsAddLess(seed) ==
    \A n \in 2 .. SizeX - 1 :
        \A straight, turned \in PathsFrom(seed.position, n) :
            (/\ StraightPath(straight) /\ ~StraightPath(turned)
             /\ WalkAdded(seed, straight, 0) > 0)
            => WalkAdded(seed, turned, 0) < WalkAdded(seed, straight, 0)

RECURSIVE TotalLux(_, _)
TotalLux(field, tiles) ==
    IF tiles = {} THEN 0
    ELSE LET t == CHOOSE x \in tiles : TRUE
         IN field[t].lux + TotalLux(field, tiles \ {t})

\* C15: update_exposure_and_stats sets exposure_lux to (sum of lux over all
\* tiles / tile count + 2) / 2, stores a copy of the working field as the
\* board's light_field and leaves the working field as it was; an all-dark
\* field gives exposure 1.0.
C15_ExposureAndStats ==
    [][pc = "exposure" =>
         /\ bf'.exposure_lux =
               (TotalLux(lfs, Tiles) \div Cardinality(Tiles) + 2 * LuxScale) \div 2
         /\ bf'.light_field = lfs
         /\ lfs' = lfs
         /\ (\A t \in Tiles : lfs[t].lux = 0) => bf'.exposure_lux = LuxScale]_vars

\* The pass has ended on a lit field: the exposure is above 1.0 and the board
\* holds the working field.
C15_Witness ==
    /\ pc = "done"
    /\ \E t \in Tiles : lfs[t].lux > 0
    /\ bf.exposure_lux > LuxScale
    /\ bf.light_field = lfs

\* C16 as claimed: every child of a step stands on a tile that received
\* (parent src_light_lux x transparency) / d^2 with d the incremented distance
\* (parent distance_travelled + 1), and carries that incremented distance.
C16_IncrementedDistance ==
    [][(pc = "propagate" /\ queue # <<>>) =>
         \A i \in DOMAIN Children :
             LET c == Children[i]
                 d == ParentDistance + 1
             IN /\ Added(c.position) = TableCarried(c) \div (d * d)
                /\ c.wave_edge.distance_travelled = d]_vars

\* C16 as amended: the lux added is (parent src_light_lux x transparency) / d^2
\* with d the distance_travelled of the parent, before the increment; the
\* child carries d + 1.
C16_ParentDistance ==
    [][(pc = "propagate" /\ queue # <<>>) =>
         \A i \in DOMAIN Children :
             LET c == Children[i]
                 d == ParentDistance
             IN /\ Added(c.position) = TableCarried(c) \div (d * d)
                /\ c.wave_edge.distance_travelled = d + 1]_vars

\* On the board with the open door a packet of TileA's lamp has taken its
\* second step: the tile it stepped onto got at least a quarter of what its
\* child carries, and that child carries distance 3.
C16_Witness ==
    /\ pc = "propagate"
    /\ bf = DoorBoard
    /\ \E i \in DOMAIN queue :
          /\ queue[i].source_id = 1
          /\ queue[i].position = <<1, 1, 0>>
          /\ queue[i].wave_edge.distance_travelled = 3
          /\ lfs[<<1, 1, 0>>].lux >= queue[i].wave_edge.src_light_lux \div 4
          /\ lfs[<<1, 1, 0>>].lux > 0

\* C17 as claimed: an in-bounds neighbour of the popped packet whose lux is at
\* least 4 x m (exactly 4 x m included), m = src_light_lux / distance_travelled^2,
\* keeps its lux and color and gets no child packet.
C17_FourTimesInclusive ==
    [][(pc = "propagate" /\ queue # <<>>) =>
         \A dir_idx \in DOMAIN directions :
             LET n == Neighbour(Parent.position, dir_idx)
             IN (is_in_bounds(n, bf.map_size) /\ lfs[n].lux >= 4 * ParentMaxLux)
                => (lfs'[n] = lfs[n] /\ ~ChildOn(n))]_vars

\* C17 as amended: the same for a neighbour whose lux is strictly more than
\* 4 x m.
C17_FourTimesStrict ==
    [][(pc = "propagate" /\ queue # <<>>) =>
         \A dir_idx \in DOMAIN directions :
             LET n == Neighbour(Parent.position, dir_idx)
             IN (is_in_bounds(n, bf.map_size) /\ lfs[n].lux > 4 * ParentMaxLux)
                => (lfs'[n] = lfs[n] /\ ~ChildOn(n))]_vars

\* The packet at the front of the queue is alive, may go towards a neighbour
\* that another source baked, and that neighbour holds more than 4 x m.
C17_Witness ==
    /\ pc = "propagate"
    /\ queue # <<>>
    /\ ParentMaxLux > 0
    /\ Parent.source_id # 0
    /\ \E dir_idx \in DOMAIN directions :
          LET n == Neighbour(Parent.position, dir_idx)
              allowed == AllowedDirections(bf, Parent, FALSE)
          IN /\ is_in_bounds(n, bf.map_size)
             /\ allowed[1] /\ allowed[2][dir_idx]
             /\ bf.prebaked_lighting[n].source_id # Parent.source_id
             /\ lfs[n].lux > 4 * ParentMaxLux
             /\ lfs[n].lux <= 8 * ParentMaxLux

\* The popped packet gets as far as the convergence rule in direction dir_idx:
\* it is alive, the direction is open to it, the neighbour is on the map, is
\* not past the 4x early exit and is not a baked tile of the packet's source.
ReachesRule(dir_idx) ==
    LET stair_origin == Parent.source_id = 0
        allowed == AllowedDirections(bf, Parent, stair_origin)
        n == Neighbour(Parent.position, dir_idx)
    IN /\ ParentMaxLux >= 1
       /\ allowed[1] /\ allowed[2][dir_idx]
       /\ n \in Tiles
       /\ lfs[n].lux <= 4 * ParentMaxLux
       /\ stair_origin \/ bf.prebaked_lighting[n].source_id # Parent.source_id

\* src_light_lux x transparency of the step in direction dir_idx.
CarriedTowards(dir_idx) ==
    LET n == Neighbour(Parent.position, dir_idx)
        stepped == StepWaveEdge(Parent.wave_edge, PosF32(n))
        tr == TableTransparency(Parent.source_id = 0, bf.collision_field[n],
                                TurnPenalty(stepped, ParentMaxLux))
    IN MulDiv(Parent.wave_edge.src_light_lux, tr[1], tr[2])

\* The step's new lux in direction dir_idx.
NewLuxTowards(dir_idx) == CarriedTowards(dir_idx) \div (ParentDistance * ParentDistance)

\* The neighbour t is unchanged and has no child packet.
LeftAlone(t) == lfs'[t] = lfs[t] /\ ~ChildOn(t)

\* The neighbour t received new_lux and its child packet carries src_light_lux.
PassedOn(t, new_lux, src_light_lux) ==
    /\ Added(t) = new_lux
    /\ \E i \in DOMAIN Children :
          /\ Children[i].position = t
          /\ Children[i].wave_edge.src_light_lux = src_light_lux

\* C18 as claimed, on the step's new lux n: a neighbour with lux >= 5 x n is
\* unchanged and gets no child; with lux >= 2 x n and < 5 x n it receives n and
\* the child carries src_light_lux x transparency / 1.1; with lux < 2 x n it
\* receives n and the child carries src_light_lux x transparency undamped.
C18_ConvergenceInclusive ==
    [][(pc = "propagate" /\ queue # <<>>) =>
         \A dir_idx \in DOMAIN directions :
             LET t == Neighbour(Parent.position, dir_idx)
                 n == NewLuxTowards(dir_idx)
                 carried == CarriedTowards(dir_idx)
             IN ReachesRule(dir_idx) =>
                  /\ lfs[t].lux >= 5 * n => LeftAlone(t)
                  /\ (lfs[t].lux >= 2 * n /\ lfs[t].lux < 5 * n)
                        => PassedOn(t, n, MulDiv(carried, 10, 11))
                  /\ lfs[t].lux < 2 * n => PassedOn(t, n, carried)]_vars

\* C18 as amended: the thresholds are strict; a neighbour with lux > 5 x n is
\* unchanged and gets no child; with lux > 2 x n and <= 5 x n it receives n and
\* the child is dampened by 1.1; with lux <= 2 x n it receives n and the child
\* is undamped.
C18_ConvergenceStrict ==
    [][(pc = "propagate" /\ queue # <<>>) =>
         \A dir_idx \in DOMAIN directions :
             LET t == Neighbour(Parent.position, dir_idx)
                 n == NewLuxTowards(dir_idx)
                 carried == CarriedTowards(dir_idx)
             IN ReachesRule(dir_idx) =>
                  /\ lfs[t].lux > 5 * n => LeftAlone(t)
                  /\ (lfs[t].lux > 2 * n /\ lfs[t].lux <= 5 * n)
                        => PassedOn(t, n, MulDiv(carried, 10, 11))
                  /\ lfs[t].lux <= 2 * n => PassedOn(t, n, carried)]_vars

\* On the board where TileA's lamp left 2.0 on the window between the lamps,
\* the packet of TileB's 1.0 lamp (n = 0.4, so exactly 5 x n) has added its
\* 0.4 and its child is queued on the window, dampened by 1.1.
C18_Witness ==
    /\ pc = "propagate"
    /\ bf = FiveTimesBoard
    /\ lfs[TileBetween].lux = 2 * LuxScale + (4 * LuxScale) \div 10
    /\ \E i \in DOMAIN queue :
          /\ queue[i].source_id = 2
          /\ queue[i].position = TileBetween
          /\ queue[i].wave_edge.src_light_lux = MulDiv((4 * LuxScale) \div 10, 10, 11)

\* C19: a non-stair packet of source s changes no tile whose baked source_id is
\* s and enqueues no child on one; a stair-origin packet (source id 0) is not
\* held back by this: a neighbour baked for source 0 that passes the other
\* checks of the step receives the step's new lux and a child packet.
C19_SameSourceSkip ==
    [][(pc = "propagate" /\ queue # <<>>) =>
         /\ Parent.source_id # 0 =>
               \A t \in Tiles :
                   bf.prebaked_lighting[t].source_id = Parent.source_id => LeftAlone(t)
         /\ Parent.source_id = 0 =>
               \A dir_idx \in DOMAIN directions :
                   LET t == Neighbour(Parent.position, dir_idx)
                       n == NewLuxTowards(dir_idx)
                   IN (/\ ReachesRule(dir_idx)
                       /\ bf.prebaked_lighting[t].source_id = 0
                       /\ lfs[t].lux <= 5 * n)
                      => (Added(t) = n /\ ChildOn(t))]_vars

\* The lamp packet's case: on the board where TileA's lamp baked the tile
\* beside it, the seed of that lamp has gone on to the other neighbour only
\* and the baked tile still holds its 0.5. The stair packet's case is on the stair board, where TileD,
\* baked for source 0, is lit by a stair packet.
C19_Witness ==
    \/ /\ pc = "propagate"
       /\ bf = SameSourceBoard
       /\ \E i \in DOMAIN queue :
             queue[i].source_id = 1 /\ queue[i].position = <<0, 1, 0>>
       /\ \A i \in DOMAIN queue :
             ~(queue[i].source_id = 1 /\ queue[i].position = TileBetween)
       /\ lfs[TileBetween] = [lux |-> LuxScale \div 2, color |-> Red]
    \/ /\ pc = "propagate"
       /\ bf = StairBoard
       /\ bf.prebaked_lighting[TileD].source_id = 0
       /\ lfs[TileD].lux > 0
       /\ \E i \in DOMAIN queue : queue[i].source_id = 0 /\ queue[i].position = TileD

\* The order of the flags of a baked mask: y-1, y+1, x-1, x+1.
MaskOrder == <<<<0, -1, 0>>, <<0, 1, 0>>, <<-1, 0, 0>>, <<1, 0, 0>>>>

\* The tile the k-th flag of a mask speaks of, seen from the popped packet.
MaskTarget(k) == [i \in 1 .. 3 |-> Parent.position[i] + MaskOrder[k][i]]

\* prebaked_propagation has a mask for the popped packet's source and (x, y).
HasMask ==
    /\ Parent.source_id < Len(bf.prebaked_propagation)
    /\ <<Parent.position[1], Parent.position[2]>>
          \in DOMAIN bf.prebaked_propagation[Parent.source_id + 1]

\* Its k-th flag.
MaskFlag(k) ==
    bf.prebaked_propagation[Parent.source_id + 1]
        [<<Parent.position[1], Parent.position[2]>>][k]

\* C20: a non-stair packet of source s at (x, y) adds light or enqueues a child
\* only in the directions whose flag is true in prebaked_propagation[s][(x, y)]
\* (order y-1, y+1, x-1, x+1) and is dropped with no effect when there is no
\* mask entry; a stair-origin packet (source id 0) ignores the mask: whatever
\* the mask says, each of its dark neighbours on the map gets a child packet.
C20_DirectionMask ==
    [][(pc = "propagate" /\ queue # <<>>) =>
         /\ (Parent.source_id # 0 /\ ~HasMask) =>
               (lfs' = lfs /\ queue' = Tail(queue))
         /\ (Parent.source_id # 0 /\ HasMask) =>
               \A k \in DOMAIN MaskOrder :
                   (~MaskFlag(k) /\ MaskTarget(k) \in Tiles) => LeftAlone(MaskTarget(k))
         /\ Parent.source_id = 0 =>
               \A k \in DOMAIN MaskOrder :
                   (/\ ParentMaxLux >= 1
                    /\ MaskTarget(k) \in Tiles
                    /\ lfs[MaskTarget(k)].lux = 0)
                   => ChildOn(MaskTarget(k))]_vars

\* Under the table that lets source 1 go along x only, the seed of TileA's
\* lamp has been processed: the tile at x+1 is lit and holds the child packet,
\* the open tile at y+1 is still dark.
C20_Witness ==
    /\ pc = "propagate"
    /\ 2 \in DOMAIN bf.prebaked_propagation
    /\ bf.prebaked_propagation[2][<<0, 0>>] = AlongX
    /\ active_source_ids = {1}
    /\ bf.prebaked_lighting[TileA].lux > 0
    /\ lfs[TileBetween].lux > 0
    /\ lfs[<<0, 1, 0>>].lux = 0
    /\ queue # <<>>
    /\ Head(queue).source_id = 1
    /\ Head(queue).position = TileBetween
    /\ Head(queue).wave_edge.distance_travelled = 2

\* src_light_lux / distance_travelled^2 of the popped packet is below the
\* epsilon 0.0000001, which is one unit of lux.
BelowEpsilon ==
    Parent.wave_edge.src_light_lux < ParentDistance * ParentDistance

\* C21: a popped packet whose src_light_lux / distance_travelled^2 is below the
\* epsilon 0.0000001 changes no tile and enqueues nothing.
C21_DeadBranch ==
    [][(pc = "propagate" /\ queue # <<>> /\ BelowEpsilon) =>
         (lfs' = lfs /\ queue' = Tail(queue))]_vars

\* The packet at the front of the queue still carries light, but less than the
\* epsilon once divided by its distance squared, and a tile of the map lies
\* next to it in a direction its mask allows.
C21_Witness ==
    /\ pc = "propagate"
    /\ queue # <<>>
    /\ Parent.wave_edge.src_light_lux > 0
    /\ BelowEpsilon
    /\ HasMask
    /\ \E k \in DOMAIN MaskOrder :
          MaskFlag(k) /\ MaskTarget(k) \in Tiles

\* The colour a tile of colour c1 and lux w1 > 0 takes when lux w2 of colour c2
\* is added: the lux-weighted mean, channel by channel.
WeightedBlend(c1, w1, c2, w2) ==
    [i \in 1 .. 3 |-> (c1[i] * w1 + c2[i] * w2) \div (w1 + w2)]

\* C22: every accepted step sets the neighbour's lux to its previous lux plus
\* the step's new lux, and every other tile keeps its entry, so that over the
\* whole propagation a tile ends with its lux before propagation plus the sum
\* of the new-lux values of the accepted steps onto it; the colour becomes the
\* packet colour when the previous lux was 0 and the lux-weighted blend of the
\* old colour and the packet colour otherwise.
C22_Additive ==
    [][(pc = "propagate" /\ queue # <<>>) =>
         /\ \A k \in DOMAIN MaskOrder :
               LET t == MaskTarget(k)
                   n == NewLuxTowards(k)
               IN (t \in Tiles /\ ChildOn(t)) =>
                    /\ n >= 0
                    /\ lfs'[t].lux = lfs[t].lux + n
                    /\ lfs'[t].color =
                          IF lfs[t].lux = 0 THEN Parent.color
                          ELSE WeightedBlend(lfs[t].color, lfs[t].lux, Parent.color, n)
         /\ \A t \in Tiles : ~ChildOn(t) => lfs'[t] = lfs[t]]_vars

\* The tile between the lamps held 4.0 of TileA's red light and has received
\* 0.98 / 1.1 of TileB's blue light on top of it: the lux is the sum and the
\* colour the blend.
C22_Witness ==
    /\ pc = "propagate"
    /\ bf = FourTimesBoard
    /\ lfs[TileBetween].lux = 4 * LuxScale + MulDiv(LuxScale, 980, 1100)
    /\ lfs[TileBetween].color =
          WeightedBlend(Red, 4 * LuxScale, Blue, MulDiv(LuxScale, 980, 1100))
    /\ lfs[TileBetween].color \notin {Red, Blue}

\* The step of the popped packet in direction k leaves its old direction
\* (iir_mean_iir_mean_pos -> iir_mean_pos) or its recent direction
\* (iir_mean_pos -> current_pos) without length.
ZeroLengthDirection(k) ==
    LET target == PosF32(MaskTarget(k))
        mean == apply_iir_filter(Parent.wave_edge.iir_mean_pos, target, IIR_FACTOR_1)
        mean_of_mean == apply_iir_filter(Parent.wave_edge.iir_mean_iir_mean_pos, mean,
                                         IIR_FACTOR_2)
    IN mean = mean_of_mean \/ target = mean

\* The step in direction k is accepted onto open floor when its turn penalty
\* is the given one (in thousandths), and then adds this much lux.
LuxAtPenalty(penalty) ==
    MulDiv(Parent.wave_edge.src_light_lux, 980, penalty)
        \div (ParentDistance * ParentDistance)

AddsAtPenalty(k, penalty) ==
    (/\ ZeroLengthDirection(k)
     /\ ReachesRule(k)
     /\ OpenFloor(MaskTarget(k))
     /\ lfs[MaskTarget(k)].lux <= 5 * LuxAtPenalty(penalty))
    => (Added(MaskTarget(k)) = LuxAtPenalty(penalty) /\ ChildOn(MaskTarget(k)))

\* C23 as claimed: a step with a zero-length old or recent direction is taken
\* without a division by zero and with the neutral turn penalty 1.0.
C23_NeutralPenalty ==
    [][(pc = "propagate" /\ queue # <<>>) =>
         \A k \in DOMAIN MaskOrder : AddsAtPenalty(k, Milli)]_vars

\* C23 as amended: the turn-penalty block gives the neutral 1.0 for such a
\* step, and the penalty the step uses is that 1.0 plus the 0.1 that every
\* packet with maximum plausible lux above 0.2 pays.
C23_NeutralPlusSurcharge ==
    [][(pc = "propagate" /\ queue # <<>>) =>
         \A k \in DOMAIN MaskOrder : AddsAtPenalty(k, NoTurnPenalty)]_vars

\* A packet whose next step has a direction of zero length is at the front of
\* the queue, bright enough for the surcharge, and the step goes onto a dark
\* open tile.
C23_Witness ==
    /\ pc = "propagate"
    /\ queue # <<>>
    /\ ParentMaxLux * 10 > 2 * LuxScale
    /\ \E k \in DOMAIN MaskOrder :
          /\ ZeroLengthDirection(k)
          /\ ReachesRule(k)
          /\ OpenFloor(MaskTarget(k))
          /\ lfs[MaskTarget(k)].lux = 0

\* The destination of the stair tile S.
StairTarget(S) == <<S[1], S[2], S[3] + bf.collision_field[S].stair_offset>>

\* The stair leak step of the stair tile S on a field, as the claim states it;
\* st = [field, updated], updated counting the destinations updated so far.
LeakStep(st, S) ==
    LET D == StairTarget(S)
        leaked == MulDiv(st.field[S].lux, 99, 100)
    IN IF bf.collision_field[S].stair_offset = 0 THEN st
       ELSE IF D \notin Tiles THEN st
       ELSE IF st.field[D].lux >= leaked THEN st
       ELSE [field |-> [st.field EXCEPT ![D] =
                          [lux |-> leaked,
                           color |-> IF st.field[D].lux = 0 THEN st.field[S].color
                                     ELSE WeightedBlend(st.field[D].color, st.field[D].lux,
                                                        st.field[S].color, leaked)]],
             updated |-> st.updated + 1]

\* The leak steps of all tiles from the n-th on, in the order of the field.
RECURSIVE LeakSteps(_, _)
LeakSteps(st, n) ==
    IF n > Len(TileOrder) THEN st
    ELSE LeakSteps(LeakStep(st, TileOrder[n]), n + 1)

\* C24: propagate_through_stairs is the stair leak step taken once for every
\* stair tile S with destination D at z + stair_offset: nothing changes when D
\* is off the board; D is unchanged when lux(D) >= 0.99 x lux(S); otherwise
\* lux(D) becomes 0.99 x lux(S) and the colour of D becomes that of S when D
\* was dark and the blend weighted by D's old lux and 0.99 x lux(S) otherwise.
\* The returned count is the number of destinations updated.
C24_StairLeakStep ==
    [][pc = "stairs" =>
         LET r == LeakSteps([field |-> lfs, updated |-> 0], 1)
         IN /\ lfs' = r.field
            /\ stair_count' = r.updated
            /\ \A t \in Tiles :
                  (\A p \in StairPairs : p[2] # t) => lfs'[t] = lfs[t]]_vars

\* On the stair board the stair of TileA has raised TileC, which held 2.0 of
\* green light, to 0.99 x 4.0 and blended TileA's red into it; one destination
\* was updated.
C24_Witness ==
    /\ pc = "stair_edges"
    /\ bf = StairBoard
    /\ lfs[TileC].lux = MulDiv(4 * LuxScale, 99, 100)
    /\ lfs[TileC].color = WeightedBlend(Green, LuxC, Red, MulDiv(4 * LuxScale, 99, 100))
    /\ stair_count = 1

\* The stair tiles that call for a seed: lit, with the destination on the
\* board and strictly darker than the stair tile.
SeedingStairs ==
    {S \in Tiles :
        /\ bf.collision_field[S].stair_offset # 0
        /\ lfs[S].lux > 0
        /\ StairTarget(S) \in Tiles
        /\ lfs[StairTarget(S)].lux < lfs[S].lux}

\* The seed the claim describes for the stair tile S.
StairSeed(S) ==
    [position |-> StairTarget(S),
     source_id |-> 0,
     lux |-> lfs[S].lux,
     color |-> lfs[S].color,
     wave_edge |-> [src_light_lux |-> lfs[S].lux,
                    distance_travelled |-> 1,
                    current_pos |-> PosF32(StairTarget(S)),
                    iir_mean_pos |-> PosF32(StairTarget(S)),
                    iir_mean_iir_mean_pos |-> PosF32(S)]]

\* C25: create_stair_wave_edges returns exactly one seed for each stair tile S
\* with lux(S) > 0 whose destination D is on the board and has lux(D) < lux(S),
\* and none otherwise; the seed stands at D with source id 0, distance 1.0,
\* src_light_lux = lux(S), the colour of S, current_pos and iir_mean_pos at D
\* and iir_mean_iir_mean_pos at S; the light field is not modified.
C25_StairSeeds ==
    [][pc = "stair_edges" =>
         /\ lfs' = lfs
         /\ Len(stair_wave_edges') = Cardinality(SeedingStairs)
         /\ \A S \in SeedingStairs :
               \E i \in DOMAIN stair_wave_edges' : stair_wave_edges'[i] = StairSeed(S)
         /\ \A i \in DOMAIN stair_wave_edges' :
               \E S \in SeedingStairs : stair_wave_edges'[i] = StairSeed(S)]_vars

\* On the stair board TileC, raised to 0.99 x 4.0 by the leak, is still darker
\* than TileA below it: the one seed stands on TileC and carries TileA's 4.0.
C25_Witness ==
    /\ pc = "seed"
    /\ bf = StairBoard
    /\ lfs[TileC].lux < lfs[TileA].lux
    /\ Len(stair_wave_edges) = 1
    /\ stair_wave_edges[1].position = TileC
    /\ stair_wave_edges[1].source_id = 0
    /\ stair_wave_edges[1].wave_edge.src_light_lux = 4 * LuxScale
    /\ stair_wave_edges[1].wave_edge.iir_mean_iir_mean_pos = PosF32(TileA)

\* The floors (z levels) that hold an enqueued seed: the seeds of the active
\* sources in the propagator's seed list.
SeedFloors ==
    LET seeds == HostBoard(bf, stair_wave_edges).prebaked_wave_edges
    IN {seeds[i].position[3] :
          i \in {k \in DOMAIN seeds : seeds[k].source_id \in active_source_ids}}

\* The distance between two numbers.
Apart(a, b) == IF a >= b THEN a - b ELSE b - a

\* C26: every child packet has the z of its parent and differs from it by
\* exactly one in exactly one of x and y; a step changes tiles of the parent's
\* floor only, and every packet is on a floor that holds an enqueued seed, so
\* propagate_from_wave_edges never changes a tile of another floor.
C26_Planar ==
    [][(pc = "propagate" /\ queue # <<>>) =>
         /\ Parent.position[3] \in SeedFloors
         /\ \A i \in DOMAIN Children :
               /\ Children[i].position[3] = Parent.position[3]
               /\ Apart(Children[i].position[1], Parent.position[1])
                    + Apart(Children[i].position[2], Parent.position[2]) = 1
         /\ \A t \in Tiles :
               lfs'[t] # lfs[t] =>
                  /\ t[3] = Parent.position[3]
                  /\ Apart(t[1], Parent.position[1]) + Apart(t[2], Parent.position[2]) = 1]_vars

\* The propagation has lit tiles of the ground floor, where the seeds are, and
\* the floor above holds no light.
C26_Witness ==
    /\ pc = "propagate"
    /\ propagation_count > 0
    /\ SeedFloors = {0}
    /\ \E t \in Tiles : t[3] = 0 /\ LitByPropagation(t)
    /\ \A t \in Tiles : t[3] # 0 => lfs[t].lux = 0

\* The number of steps a queued packet is from its seed; every seed starts
\* with distance_travelled 1.
StepsFromSeed(packet) == packet.wave_edge.distance_travelled - 1

\* The seeds of the active sources, in the order of the seed list.
ActiveSeedsInOrder ==
    LET seeds == HostBoard(bf, stair_wave_edges).prebaked_wave_edges
        kept == SelectSeq([i \in DOMAIN seeds |-> i],
                          LAMBDA i : seeds[i].source_id \in active_source_ids)
    IN [n \in DOMAIN kept |-> SeedPacket(seeds[kept[n]])]

\* C27: the queue is a FIFO filled with the active seeds in seed-list order:
\* each step pops the front packet and appends its children behind the others,
\* so the packets wait in the order of their number of steps from the seed and
\* no packet is processed before one that is fewer steps from its seed.
C27_BreadthFirst ==
    [][/\ pc = "seed" => queue' = ActiveSeedsInOrder
       /\ (pc = "propagate" /\ queue # <<>>) =>
            /\ Len(queue') >= Len(queue) - 1
            /\ SubSeq(queue', 1, Len(queue) - 1) = Tail(queue)
            /\ \A i \in DOMAIN Children :
                  StepsFromSeed(Children[i]) = StepsFromSeed(Parent) + 1
            /\ \A i \in DOMAIN queue :
                  /\ StepsFromSeed(Parent) <= StepsFromSeed(queue[i])
                  /\ StepsFromSeed(queue[i]) <= StepsFromSeed(Parent) + 1
                  /\ \A j \in DOMAIN queue :
                        i < j => StepsFromSeed(queue[i]) <= StepsFromSeed(queue[j])]_vars

\* Packets one step and two steps from their seeds wait together, those of one
\* step in front, and two seeds were enqueued.
C27_Witness ==
    /\ pc = "propagate"
    /\ Len(ActiveSeedsInOrder) = 2
    /\ Len(queue) >= 3
    /\ StepsFromSeed(queue[1]) = 1
    /\ StepsFromSeed(queue[Len(queue)]) = 2

\* C28: every enqueued child has distance_travelled equal to its parent's plus
\* exactly 1 and src_light_lux at most 0.98 x its parent's (0.9 x for a
\* stair-origin packet), so that src_light_lux / distance_travelled^2 strictly
\* decreases from parent to child.
C28_Attenuation ==
    [][(pc = "propagate" /\ queue # <<>>) =>
         \A i \in DOMAIN Children :
             LET c == Children[i].wave_edge
             IN /\ c.distance_travelled = ParentDistance + 1
                /\ c.src_light_lux <=
                      MulDiv(Parent.wave_edge.src_light_lux,
                             IF Parent.source_id = 0 THEN 90 ELSE 98, 100)
                /\ c.src_light_lux < Parent.wave_edge.src_light_lux
                /\ c.src_light_lux \div (c.distance_travelled * c.distance_travelled)
                      < ParentMaxLux]_vars

\* On the stair board the children of TileA's lamp seed and of the stair seed
\* wait together: the lamp's child carries 0.98 / 1.1 of the seed's 4.0, the
\* stair packet's child 0.9 of it, both at distance 2.
C28_Witness ==
    /\ pc = "propagate"
    /\ bf = StairBoard
    /\ \E i, j \in DOMAIN queue :
          /\ queue[i].source_id = 1
          /\ queue[i].wave_edge.distance_travelled = 2
          /\ queue[i].wave_edge.src_light_lux = MulDiv(4 * LuxScale, 980, 1100)
          /\ queue[j].source_id = 0
          /\ queue[j].wave_edge.distance_travelled = 2
          /\ queue[j].wave_edge.src_light_lux = MulDiv(4 * LuxScale, 9, 10)

\* From the state st before its n-th iteration on, no iteration of the loop of
\* propagate_through_stairs lowers the lux of a tile, and the loop ends with
\* the light field of the next state.
RECURSIVE StairStepsRaise(_, _)
StairStepsRaise(st, n) ==
    IF n > Len(TileOrder) THEN st.lfs = lfs'
    ELSE \A next \in {StairStep(bf, st, TileOrder[n])} :
            /\ \A t \in Tiles : next.lfs[t].lux >= st.lfs[t].lux
            /\ StairStepsRaise(next, n + 1)

\* The tiles a stair leads to.
StairDestinations == {p[2] : p \in StairPairs}

\* C29: after the prebaked application lux never decreases: no iteration of
\* the loop of propagate_through_stairs and no step of
\* propagate_from_wave_edges lowers the lux of a tile; the stairs change
\* stair destinations only, and a propagation step changes only the tiles it
\* enqueues a child on.
C29_LuxNeverDecreases ==
    [][/\ pc = "stairs" =>
            /\ StairStepsRaise([lfs |-> lfs, count |-> 0], 1)
            /\ \A t \in Tiles \ StairDestinations : lfs'[t] = lfs[t]
       /\ (pc = "propagate" /\ queue # <<>>) =>
            \A t \in Tiles :
                /\ lfs'[t].lux >= lfs[t].lux
                /\ ~ChildOn(t) => lfs'[t] = lfs[t]]_vars

\* On the stair board the stairs have raised TileC from its baked 2.0 to
\* 0.99 x 4.0, a stair packet has lit the dark TileD beside it, and TileA
\* still holds its 4.0.
C29_Witness ==
    /\ pc = "propagate"
    /\ bf = StairBoard
    /\ bf.prebaked_lighting[TileC].lux = LuxC
    /\ lfs[TileC].lux = MulDiv(4 * LuxScale, 99, 100)
    /\ lfs[TileD].lux > 0
    /\ lfs[TileA].lux = 4 * LuxScale

\* ---------------------------------------------------------------------- C30
\* The stair tiles of the board whose destination is inside it, each with its
\* destination.
StairsOf(b) ==
    {<<t, <<t[1], t[2], t[3] + b.collision_field[t].stair_offset>>>> :
        t \in {s \in DOMAIN b.collision_field :
                  /\ b.collision_field[s].stair_offset # 0
                  /\ TargetInBounds(b, s[3] + b.collision_field[s].stair_offset)}}

\* C30: one call of propagate_through_stairs reaches a fixed point, whatever
\* the stair layout: a second call right after the first changes no tile and
\* returns 0, every stair destination inside the board holding at least 0.99 x
\* the lux of its stair tile after the first call.
C30_FixedPointInOneCall ==
    [][(pc = "stair_edges" /\ pc' = "stairs_again") =>
          /\ lfs' = lfs
          /\ stair_count' = 0
          /\ \A p \in StairsOf(bf) : lfs[p[2]].lux >= StairLux(lfs[p[1]].lux)]_vars

====
